---- MODULE Spec2Model ----
(***************************************************************************)
(* Model of examples/python_backtest_comparison.py: the signal generators  *)
(* (SMA, EMA, RSI, MACD) and TradingStrategy.backtest, the bar-by-bar      *)
(* portfolio simulator with its trade log and equity column.               *)
(*                                                                         *)
(* Numbers.  The simulator computes in Python floats (IEEE-754 binary,     *)
(* round to nearest, ties to even).  The model keeps that arithmetic but   *)
(* with a significand of Precision bits instead of 53: a float is the      *)
(* integer n standing for n / Scale, and every operation rounds its exact  *)
(* result to Precision significant bits.  The indicators (rolling mean,    *)
(* exponentially weighted mean, RSI) are computed over small integer       *)
(* closes, where the order of two indicator values is the order of the     *)
(* exact quotients; they are modelled as exact rationals <<num, den>>.     *)
(* Sequences are 1-based here and 0-based in the source: the source's      *)
(* x[j] is At(x, j).                                                       *)
(*                                                                         *)
(* Specifications.  Spec runs backtest on arbitrary signal sequences,      *)
(* SpecIndicators on the four generators, SpecScenario on SMA(2,3) over a  *)
(* ten-bar series, SpecAnySeries on series that may be empty or hold       *)
(* closes below 0, SpecWinRate applies _calculate_win_rate to trade logs,  *)
(* and SpecMain runs a list of strategies one after another as main does.  *)
(***************************************************************************)
EXTENDS Integers, Sequences, FiniteSets, TLC

VARIABLES strategy, close, pc, i, signals, position, cash, trades,
          df_position, df_cash, df_holdings, df_portfolio_value, df_trades,
          results, strategies, all_results

vars == <<strategy, close, pc, i, signals, position, cash, trades,
          df_position, df_cash, df_holdings, df_portfolio_value, df_trades,
          results, strategies, all_results>>

(* ---------------------------- bounds ----------------------------------- *)

\* longest price series explored
MaxLen == 4

\* bits of significand of the modelled float (53 in the source's floats)
Precision == 7

\* longest trade log handed to _calculate_win_rate on its own
MaxLog == 4

(* ---------------------------- floats ----------------------------------- *)

RECURSIVE Pow2(_)
Pow2(n) == IF n = 0 THEN 1 ELSE 2 * Pow2(n - 1)

\* fractional bits of the representation: the float n stands for n / Scale
FracBits == Precision + 1

Scale == Pow2(FracBits)

\* an integer literal as a float
ToFloat(x) == x * Scale

\* the results of x / 0: 0/0 and (non-zero)/0
NaN == -1073741823

Inf == 1073741823

NegInf == -1073741822

Abs(x) == IF x < 0 THEN -x ELSE x

\* least e >= 0 with num / den < 2^Precision * 2^e
RECURSIVE ExpOf(_, _, _)
ExpOf(num, den, e) ==
    IF num < den * Pow2(Precision) * Pow2(e) THEN e ELSE ExpOf(num, den, e + 1)

\* num / den (num >= 0, den > 0) to the nearest integer, ties to even
RoundHalfEven(num, den) ==
    LET q == num \div den
        r == num % den
    IN  IF 2 * r > den \/ (2 * r = den /\ q % 2 = 1) THEN q + 1 ELSE q

\* num / den (den > 0), in units of 1 / Scale, rounded to Precision bits
FRound(num, den) ==
    LET a == Abs(num)
        e == ExpOf(a, den, 0)
        m == RoundHalfEven(a, den * Pow2(e)) * Pow2(e)
    IN  IF num < 0 THEN -m ELSE m

FAdd(a, b) == FRound(a + b, 1)

FSub(a, b) == FRound(a - b, 1)

FMul(a, b) == FRound(a * b, Scale)

FDiv(a, b) ==
    IF b = 0 THEN (IF a = 0 THEN NaN ELSE IF a > 0 THEN Inf ELSE NegInf)
    ELSE IF b < 0 THEN FRound(-(a * Scale), -b)
    ELSE FRound(a * Scale, b)

(* ---------------------------- rationals -------------------------------- *)

\* An indicator value is <<num, den>> with den > 0, or one of the three
\* non-finite values of the source's floats.
QNaN == <<0, 0>>

QInf == <<1, 0>>

QNegInf == <<-1, 0>>

IsNaN(a) == a = QNaN

IsFinite(a) == a[2] > 0

RECURSIVE GCD(_, _)
GCD(a, b) == IF b = 0 THEN a ELSE GCD(b, a % b)

\* num / den (den > 0) in lowest terms
Q(num, den) ==
    LET g == GCD(Abs(num), den)
    IN  <<num \div g, den \div g>>

QInt(n) == <<n, 1>>

QNeg(a) == <<-a[1], a[2]>>

QAdd(a, b) ==
    IF IsNaN(a) \/ IsNaN(b) THEN QNaN
    ELSE IF ~IsFinite(a) THEN (IF ~IsFinite(b) /\ b # a THEN QNaN ELSE a)
    ELSE IF ~IsFinite(b) THEN b
    ELSE Q(a[1] * b[2] + b[1] * a[2], a[2] * b[2])

QSub(a, b) == QAdd(a, QNeg(b))

\* k * a for an integer k > 0 and a finite a
QScale(k, a) == Q(k * a[1], a[2])

QDiv(a, b) ==
    IF IsNaN(a) \/ IsNaN(b) THEN QNaN
    ELSE IF ~IsFinite(a) THEN
        (IF ~IsFinite(b) THEN QNaN
         ELSE IF b[1] < 0 THEN QNeg(a) ELSE a)
    ELSE IF ~IsFinite(b) THEN QInt(0)
    ELSE IF b[1] = 0 THEN
        (IF a[1] = 0 THEN QNaN ELSE IF a[1] > 0 THEN QInf ELSE QNegInf)
    ELSE IF b[1] < 0 THEN Q(-(a[1] * b[2]), -(b[1] * a[2]))
    ELSE Q(a[1] * b[2], b[1] * a[2])

\* the source's comparisons: every comparison with NaN is False
QLt(a, b) ==
    /\ ~IsNaN(a) /\ ~IsNaN(b)
    /\ IF ~IsFinite(a) \/ ~IsFinite(b)
       THEN a # b /\ (a = QNegInf \/ b = QInf)
       ELSE a[1] * b[2] < b[1] * a[2]

QGt(a, b) == QLt(b, a)

QLe(a, b) == ~IsNaN(a) /\ ~IsNaN(b) /\ ~QLt(b, a)

QGe(a, b) == QLe(b, a)

(* ---------------------------- inputs ----------------------------------- *)

\* closes of the explored price series
Prices == {2, 3}

\* the base-class fields explored, <<initial_capital, commission, slippage>>
\* as floats: a funded strategy with no costs, with costs 1/8 and 1/16, and
\* with a commission of 100%, and an unfunded one
BaseFields ==
    { <<ToFloat(97), 0, 0>>,
      <<ToFloat(97), Scale \div 8, Scale \div 16>>,
      <<ToFloat(97), Scale, 0>>,
      <<ToFloat(0), 0, 0>> }

Signal == {1, -1, 0}

SeqsOfLen(S, n) == [1..n -> S]

\* the source's x[j] (0-based)
At(x, j) == x[j + 1]

Last(x) == x[Len(x)]

\* closes of the series the indicator strategies are run on
GenPrices == {2, 3, 7}

SMAStrategies ==
    { [kind |-> "sma", fast_period |-> p[1], slow_period |-> p[2],
       initial_capital |-> b[1], commission |-> b[2], slippage |-> b[3]] :
         p \in { <<1, 2>>, <<2, 3>> }, b \in BaseFields }

EMAStrategies ==
    { [kind |-> "ema", fast_period |-> p[1], slow_period |-> p[2],
       initial_capital |-> b[1], commission |-> b[2], slippage |-> b[3]] :
         p \in { <<1, 3>>, <<2, 3>> }, b \in BaseFields }

RSIStrategies ==
    { [kind |-> "rsi", period |-> p[1], oversold |-> p[2], overbought |-> p[3],
       initial_capital |-> b[1], commission |-> b[2], slippage |-> b[3]] :
         p \in { <<2, 30, 70>> }, b \in BaseFields }

MACDStrategies ==
    { [kind |-> "macd", fast_period |-> p[1], slow_period |-> p[2],
       signal_period |-> p[3],
       initial_capital |-> b[1], commission |-> b[2], slippage |-> b[3]] :
         p \in { <<1, 3, 2>> }, b \in BaseFields }

IndicatorStrategies ==
    SMAStrategies \cup EMAStrategies \cup RSIStrategies \cup MACDStrategies

\* a strategy whose generate_signals returns the given sequence
CustomStrategies ==
    { [kind |-> "custom", out |-> s,
       initial_capital |-> b[1], commission |-> b[2], slippage |-> b[3]] :
         s \in UNION { SeqsOfLen(Signal, n) : n \in 1..MaxLen },
         b \in BaseFields }

(* ---------------------------- indicators ------------------------------- *)

RECURSIVE SumRange(_, _, _)
\* xs[lo] + ... + xs[hi] (0-based, integers)
SumRange(xs, lo, hi) ==
    IF lo > hi THEN 0 ELSE At(xs, hi) + SumRange(xs, lo, hi - 1)

\* Series.rolling(window).mean(): undefined until the window is full
RollingMean(xs, window) ==
    [j \in 1..Len(xs) |->
        IF j < window THEN QNaN
        ELSE Q(SumRange(xs, j - window, j - 1), window)]

RECURSIVE Pow(_, _)
Pow(b, e) == IF e = 0 THEN 1 ELSE b * Pow(b, e - 1)

RECURSIVE EwmNum(_, _, _, _, _)
\* sum over k' in 0..k of p^k' q^(t-k') xs[t-k']
EwmNum(xs, p, q, t, k) ==
    LET term == IF p = 0 /\ k > 0 THEN QInt(0)
                ELSE QScale(Pow(p, k) * Pow(q, t - k), At(xs, t - k))
    IN  IF k = 0 THEN term ELSE QAdd(term, EwmNum(xs, p, q, t, k - 1))

RECURSIVE EwmDen(_, _, _, _)
EwmDen(p, q, t, k) ==
    Pow(p, k) * Pow(q, t - k) + (IF k = 0 THEN 0 ELSE EwmDen(p, q, t, k - 1))

\* Series.ewm(span=span).mean() with the default adjust=True: weights
\* (1 - alpha)^k over the whole history, alpha = 2 / (span + 1)
EwmMean(xs, span) ==
    [j \in 1..Len(xs) |->
        QDiv(EwmNum(xs, span - 1, span + 1, j - 1, j - 1),
             QInt(EwmDen(span - 1, span + 1, j - 1, j - 1)))]

QSeries(xs) == [j \in 1..Len(xs) |-> QInt(xs[j])]

(* ---------------------------- generators ------------------------------- *)

\* SMAStrategy.generate_signals
SMAFast(cl, fast_period) == RollingMean(cl, fast_period)

SMASlow(cl, slow_period) == RollingMean(cl, slow_period)

\* lines 159, 163 with the previous bar tested as "not above" / "not below"
SMASignalAt_NegatedPrev(fastS, slowS, j) ==
    LET fast_current == At(fastS, j)
        slow_current == At(slowS, j)
        fast_prev == At(fastS, j - 1)
        slow_prev == At(slowS, j - 1)
    IN  IF /\ QGt(fast_current, slow_current) /\ ~QGt(fast_prev, slow_prev)
           /\ ~IsNaN(fast_current) /\ ~IsNaN(slow_current)
        THEN 1
        ELSE IF /\ QLt(fast_current, slow_current) /\ ~QLt(fast_prev, slow_prev)
                /\ ~IsNaN(fast_current) /\ ~IsNaN(slow_current)
        THEN -1
        ELSE 0

SMASignalAt(fastS, slowS, j) ==
    LET fast_current == At(fastS, j)
        slow_current == At(slowS, j)
        fast_prev == At(fastS, j - 1)
        slow_prev == At(slowS, j - 1)
    IN  IF /\ QGt(fast_current, slow_current) /\ QLe(fast_prev, slow_prev)
           /\ ~IsNaN(fast_current) /\ ~IsNaN(slow_current)
        THEN 1
        ELSE IF /\ QLt(fast_current, slow_current) /\ QGe(fast_prev, slow_prev)
                /\ ~IsNaN(fast_current) /\ ~IsNaN(slow_current)
        THEN -1
        ELSE 0

SMASignals(cl, fast_period, slow_period) ==
    [j \in 1..Len(cl) |->
        IF j = 1 THEN 0
        ELSE SMASignalAt(SMAFast(cl, fast_period), SMASlow(cl, slow_period), j - 1)]

\* EMAStrategy.generate_signals

\* lines 191, 194 with strict comparisons on the previous bar
EMASignalAt_StrictPrev(fastS, slowS, j) ==
    LET fast_current == At(fastS, j)
        slow_current == At(slowS, j)
        fast_prev == At(fastS, j - 1)
        slow_prev == At(slowS, j - 1)
    IN  IF QGt(fast_current, slow_current) /\ QLt(fast_prev, slow_prev) THEN 1
        ELSE IF QLt(fast_current, slow_current) /\ QGt(fast_prev, slow_prev) THEN -1
        ELSE 0

EMASignalAt(fastS, slowS, j) ==
    LET fast_current == At(fastS, j)
        slow_current == At(slowS, j)
        fast_prev == At(fastS, j - 1)
        slow_prev == At(slowS, j - 1)
    IN  IF QGt(fast_current, slow_current) /\ QLe(fast_prev, slow_prev) THEN 1
        ELSE IF QLt(fast_current, slow_current) /\ QGe(fast_prev, slow_prev) THEN -1
        ELSE 0

EMAFast(cl, fast_period) == EwmMean(QSeries(cl), fast_period)

EMASlow(cl, slow_period) == EwmMean(QSeries(cl), slow_period)

\* the signal of bar j stored one slot early, at j - 1
EMASignals_ShiftedLeft(cl, fast_period, slow_period) ==
    [j \in 1..Len(cl) |->
        IF j = Len(cl) THEN 0
        ELSE EMASignalAt(EMAFast(cl, fast_period), EMASlow(cl, slow_period), j)]

EMASignals(cl, fast_period, slow_period) ==
    [j \in 1..Len(cl) |->
        IF j = 1 THEN 0
        ELSE EMASignalAt(EMAFast(cl, fast_period), EMASlow(cl, slow_period), j - 1)]

\* RSIStrategy.generate_signals
\* delta = close.diff(): undefined at index 0, so both where() give 0 there
Gain(cl) ==
    [j \in 1..Len(cl) |->
        IF j > 1 /\ cl[j] - cl[j - 1] > 0 THEN cl[j] - cl[j - 1] ELSE 0]

Loss(cl) ==
    [j \in 1..Len(cl) |->
        IF j > 1 /\ cl[j] - cl[j - 1] < 0 THEN -(cl[j] - cl[j - 1]) ELSE 0]

AvgGain(cl, period) == RollingMean(Gain(cl), period)

AvgLoss(cl, period) == RollingMean(Loss(cl), period)

\* rs = gain / loss; rsi = 100 - (100 / (1 + rs))
RSI(cl, period) ==
    [j \in 1..Len(cl) |->
        LET rs == QDiv(AvgGain(cl, period)[j], AvgLoss(cl, period)[j])
        IN  QSub(QInt(100), QDiv(QInt(100), QAdd(QInt(1), rs)))]

RSISignalAt(rsiS, oversold, overbought, j) ==
    LET rsi == At(rsiS, j)
        prev_rsi == At(rsiS, j - 1)
    IN  IF QGt(rsi, QInt(oversold)) /\ QLe(prev_rsi, QInt(oversold)) THEN 1
        ELSE IF QLt(rsi, QInt(overbought)) /\ QGe(prev_rsi, QInt(overbought)) THEN -1
        ELSE 0

RSISignals(cl, period, oversold, overbought) ==
    [j \in 1..Len(cl) |->
        IF j = 1 THEN 0
        ELSE RSISignalAt(RSI(cl, period), oversold, overbought, j - 1)]

\* MACDStrategy.generate_signals
MACDLine(cl, fast_period, slow_period) ==
    [j \in 1..Len(cl) |->
        QSub(EwmMean(QSeries(cl), fast_period)[j], EwmMean(QSeries(cl), slow_period)[j])]

MACDSignalLine(cl, fast_period, slow_period, signal_period) ==
    EwmMean(MACDLine(cl, fast_period, slow_period), signal_period)

MACDSignalAt(macdS, sigS, j) ==
    LET macd == At(macdS, j)
        macd_signal == At(sigS, j)
        prev_macd == At(macdS, j - 1)
        prev_macd_signal == At(sigS, j - 1)
    IN  IF QGt(macd, macd_signal) /\ QLe(prev_macd, prev_macd_signal) THEN 1
        ELSE IF QLt(macd, macd_signal) /\ QGe(prev_macd, prev_macd_signal) THEN -1
        ELSE 0

MACDSignals(cl, fast_period, slow_period, signal_period) ==
    [j \in 1..Len(cl) |->
        IF j = 1 THEN 0
        ELSE MACDSignalAt(MACDLine(cl, fast_period, slow_period),
                          MACDSignalLine(cl, fast_period, slow_period, signal_period),
                          j - 1)]

(* ---------------------------- backtest --------------------------------- *)

TypeOK ==
    /\ pc \in {"start", "loop", "done", "error", "win_rate", "end"}
    /\ i \in 0..(Len(close) + 1)
    /\ results.done \in BOOLEAN

\* the locals of backtest before it has run
NotStarted ==
    /\ pc = "start"
    /\ i = 0
    /\ signals = <<>>
    /\ position = 0
    /\ cash = 0
    /\ trades = <<>>
    /\ df_position = <<>>
    /\ df_cash = <<>>
    /\ df_holdings = <<>>
    /\ df_portfolio_value = <<>>
    /\ df_trades = <<>>
    /\ results = [done |-> FALSE]
    /\ strategies = <<>>
    /\ all_results = <<>>

\* a strategy with given signals, and a series of the length of its signals
Init ==
    /\ strategy \in CustomStrategies
    /\ close \in SeqsOfLen(Prices, Len(strategy.out))
    /\ NotStarted

\* one of the four indicator strategies, and a series
InitIndicators ==
    /\ strategy \in IndicatorStrategies
    /\ close \in UNION { SeqsOfLen(GenPrices, n) : n \in 1..MaxLen }
    /\ NotStarted

\* 1 + commission + slippage
BuyCost == FAdd(FAdd(ToFloat(1), strategy.commission), strategy.slippage)

\* 1 - commission - slippage
SellCost == FSub(FSub(ToFloat(1), strategy.commission), strategy.slippage)

\* lines 46-57 with the bar loop starting at bar 0
StartPortfolio_FromBarZero ==
    /\ df_position' = [j \in 1..Len(close) |-> 0]
    /\ df_portfolio_value' = [j \in 1..Len(close) |-> strategy.initial_capital]
    /\ df_cash' = [j \in 1..Len(close) |-> strategy.initial_capital]
    /\ df_holdings' = [j \in 1..Len(close) |-> 0]
    /\ df_trades' = [j \in 1..Len(close) |-> 0]
    /\ position' = 0
    /\ cash' = strategy.initial_capital
    /\ trades' = <<>>
    /\ i' = 0
    /\ pc' = "loop"

\* lines 46-55: the columns and the locals before the bar loop
StartPortfolio ==
    /\ df_position' = [j \in 1..Len(close) |-> 0]
    /\ df_portfolio_value' = [j \in 1..Len(close) |-> strategy.initial_capital]
    /\ df_cash' = [j \in 1..Len(close) |-> strategy.initial_capital]
    /\ df_holdings' = [j \in 1..Len(close) |-> 0]
    /\ df_trades' = [j \in 1..Len(close) |-> 0]
    /\ position' = 0
    /\ cash' = strategy.initial_capital
    /\ trades' = <<>>
    /\ i' = 1
    /\ pc' = "loop"

\* line 43 for a strategy that returns a given sequence
GenerateCustom ==
    /\ pc = "start"
    /\ strategy.kind = "custom"
    /\ signals' = strategy.out
    /\ StartPortfolio
    /\ UNCHANGED <<strategies, all_results, strategy, close, results>>

\* line 43 for the four indicator strategies
GenerateSMA ==
    /\ pc = "start"
    /\ strategy.kind = "sma"
    /\ signals' = SMASignals(close, strategy.fast_period, strategy.slow_period)
    /\ StartPortfolio
    /\ UNCHANGED <<strategies, all_results, strategy, close, results>>

GenerateEMA ==
    /\ pc = "start"
    /\ strategy.kind = "ema"
    /\ signals' = EMASignals(close, strategy.fast_period, strategy.slow_period)
    /\ StartPortfolio
    /\ UNCHANGED <<strategies, all_results, strategy, close, results>>

GenerateRSI ==
    /\ pc = "start"
    /\ strategy.kind = "rsi"
    /\ signals' = RSISignals(close, strategy.period, strategy.oversold,
                             strategy.overbought)
    /\ StartPortfolio
    /\ UNCHANGED <<strategies, all_results, strategy, close, results>>

GenerateMACD ==
    /\ pc = "start"
    /\ strategy.kind = "macd"
    /\ signals' = MACDSignals(close, strategy.fast_period, strategy.slow_period,
                              strategy.signal_period)
    /\ StartPortfolio
    /\ UNCHANGED <<strategies, all_results, strategy, close, results>>

\* line 88 without the holdings
Equity_CashOnly(csh, pos, price) == csh

\* line 88
Equity(csh, pos, price) == FAdd(csh, FMul(pos, price))

\* lines 85-89 with the trades column holding the bar's own trades, not
\* the length of the log
WriteRow_TradesOfBar(pos, csh, trs) ==
    LET price == ToFloat(At(close, i))
    IN  /\ df_position' = [df_position EXCEPT ![i + 1] = pos]
        /\ df_cash' = [df_cash EXCEPT ![i + 1] = csh]
        /\ df_holdings' = [df_holdings EXCEPT ![i + 1] = FMul(pos, price)]
        /\ df_portfolio_value' =
               [df_portfolio_value EXCEPT ![i + 1] = Equity(csh, pos, price)]
        /\ df_trades' = [df_trades EXCEPT ![i + 1] = Len(trs) - Len(trades)]

\* lines 85-89: the row of bar i, from the locals after the bar's signal
WriteRow(pos, csh, trs) ==
    LET price == ToFloat(At(close, i))
    IN  /\ df_position' = [df_position EXCEPT ![i + 1] = pos]
        /\ df_cash' = [df_cash EXCEPT ![i + 1] = csh]
        /\ df_holdings' = [df_holdings EXCEPT ![i + 1] = FMul(pos, price)]
        /\ df_portfolio_value' =
               [df_portfolio_value EXCEPT ![i + 1] = Equity(csh, pos, price)]
        /\ df_trades' = [df_trades EXCEPT ![i + 1] = Len(trs)]

InLoop == pc = "loop" /\ i < Len(close)

\* line 62 without its position test
BuyCond_AnyPosition(signal, pos) == signal = 1

\* line 62: a Buy signal is acted on only while flat
BuyCond(signal, pos) == signal = 1 /\ pos = 0

\* line 74 with position >= 0 for position > 0
SellCond_NotShort(signal, pos) == signal = -1 /\ pos >= 0

\* line 74: a Sell signal is acted on only while long
SellCond(signal, pos) == signal = -1 /\ pos > 0

\* line 64
SharesToBuy(csh, price) == FDiv(csh, FMul(price, BuyCost))

\* line 66 replaced by "all cash is spent"
CashAfterBuy_AllSpent(csh, shares_to_buy, price) == 0

\* line 66
CashAfterBuy(csh, shares_to_buy, price) ==
    FSub(csh, FMul(FMul(shares_to_buy, price), BuyCost))

\* line 76
CashAfterSell(csh, pos, price) ==
    FAdd(csh, FMul(FMul(pos, price), SellCost))

\* lines 62-72
BuyBar ==
    /\ InLoop
    /\ BuyCond(At(signals, i), position)
    /\ LET price == ToFloat(At(close, i))
           shares_to_buy == SharesToBuy(cash, price)
       IN  /\ position' = shares_to_buy
           /\ cash' = CashAfterBuy(cash, shares_to_buy, price)
           /\ trades' = Append(trades, [date |-> i, type |-> "buy",
                                        price |-> price, shares |-> shares_to_buy])
           /\ WriteRow(position', cash', trades')
    /\ i' = i + 1
    /\ UNCHANGED <<strategies, all_results, strategy, close, pc, signals, results>>

\* lines 74-83
SellBar ==
    /\ InLoop
    /\ ~BuyCond(At(signals, i), position)
    /\ SellCond(At(signals, i), position)
    /\ LET price == ToFloat(At(close, i))
       IN  /\ cash' = CashAfterSell(cash, position, price)
           /\ trades' = Append(trades, [date |-> i, type |-> "sell",
                                        price |-> price, shares |-> position])
           /\ position' = 0
           /\ WriteRow(position', cash', trades')
    /\ i' = i + 1
    /\ UNCHANGED <<strategies, all_results, strategy, close, pc, signals, results>>

\* neither branch of lines 62-83 is taken
IdleBar ==
    /\ InLoop
    /\ ~BuyCond(At(signals, i), position)
    /\ ~SellCond(At(signals, i), position)
    /\ WriteRow(position, cash, trades)
    /\ i' = i + 1
    /\ UNCHANGED <<strategies, all_results, strategy, close, pc, signals, position, cash, trades, results>>

\* float arithmetic that carries NaN and the infinities through
IsNum(x) == x \notin {NaN, Inf, NegInf}

Neg(x) == IF x = NaN THEN NaN ELSE IF x = Inf THEN NegInf ELSE IF x = NegInf THEN Inf ELSE -x

NAdd(a, b) ==
    IF a = NaN \/ b = NaN THEN NaN
    ELSE IF IsNum(a) /\ IsNum(b) THEN FAdd(a, b)
    ELSE IF IsNum(a) THEN b
    ELSE IF IsNum(b) \/ a = b THEN a
    ELSE NaN

NSub(a, b) == NAdd(a, Neg(b))

NMul(a, b) ==
    IF a = NaN \/ b = NaN THEN NaN
    ELSE IF IsNum(a) /\ IsNum(b) THEN FMul(a, b)
    ELSE IF a = 0 \/ b = 0 THEN NaN
    ELSE IF (a > 0) = (b > 0) THEN Inf ELSE NegInf

NDiv(a, b) ==
    IF a = NaN \/ b = NaN THEN NaN
    ELSE IF IsNum(a) /\ IsNum(b) THEN FDiv(a, b)
    ELSE IF IsNum(a) THEN 0
    ELSE IF ~IsNum(b) THEN NaN
    ELSE IF (a > 0) = (b >= 0) THEN Inf ELSE NegInf

\* floor of the square root of n >= 0
RECURSIVE ISqrt(_)
ISqrt(n) ==
    IF n < 2 THEN n
    ELSE LET r == 2 * ISqrt(n \div 4)
         IN  IF (r + 1) * (r + 1) <= n THEN r + 1 ELSE r

\* least e >= 0 with sqrt(x) < 2^Precision * 2^e
RECURSIVE SqrtExpOf(_, _)
SqrtExpOf(x, e) ==
    IF x < Pow2(2 * Precision) * Pow2(2 * e) THEN e ELSE SqrtExpOf(x, e + 1)

\* np.sqrt: the square root rounded to Precision bits, ties to even
FSqrt(a) ==
    IF a = NaN \/ a = NegInf \/ (IsNum(a) /\ a < 0) THEN NaN
    ELSE IF a = Inf THEN Inf
    ELSE LET x == a * Scale
             e == SqrtExpOf(x, 0)
             q == ISqrt(x \div Pow2(2 * e))
             half == Pow2(2 * e) * (2 * q + 1) * (2 * q + 1)
             m == IF 4 * x > half \/ (4 * x = half /\ q % 2 = 1) THEN q + 1 ELSE q
         IN  m * Pow2(e)

\* line 92: pct_change(): value / previous value - 1, undefined at index 0
PctChange(xs) ==
    [j \in 1..Len(xs) |->
        IF j = 1 THEN NaN ELSE NSub(NDiv(xs[j], xs[j - 1]), ToFloat(1))]

\* line 92: dropna()
DropNa(xs) == SelectSeq(xs, LAMBDA x : x # NaN)

\* sum of the first k values, added in order
RECURSIVE SeriesSum(_, _)
SeriesSum(xs, k) == IF k = 0 THEN 0 ELSE NAdd(SeriesSum(xs, k - 1), xs[k])

\* mean(): NaN for a series without values
SeriesMean(xs) == NDiv(SeriesSum(xs, Len(xs)), ToFloat(Len(xs)))

\* std(): the sample standard deviation (ddof = 1), NaN below two values
SeriesStd(xs) ==
    IF Len(xs) < 2 THEN NaN
    ELSE LET avg == SeriesMean(xs)
             sqr == [j \in 1..Len(xs) |-> NMul(NSub(avg, xs[j]), NSub(avg, xs[j]))]
         IN  FSqrt(NDiv(SeriesSum(sqr, Len(sqr)), ToFloat(Len(xs) - 1)))

\* the default risk_free_rate of line 130, 0.02
RiskFreeRate == FDiv(ToFloat(2), ToFloat(100))

\* trading days in a year, lines 134-135
TradingDays == 252

\* line 132: returns.std() == 0
ZeroStd(returns) == SeriesStd(returns) = 0

\* _calculate_sharpe_ratio, lines 130-135
SharpeRatio(returns) ==
    IF Len(returns) = 0 \/ ZeroStd(returns) THEN ToFloat(0)
    ELSE LET excess_returns ==
                 NSub(NMul(SeriesMean(returns), ToFloat(TradingDays)), RiskFreeRate)
         IN  NDiv(excess_returns,
                  NMul(SeriesStd(returns), FSqrt(ToFloat(TradingDays))))

\* line 103: returns.std() * np.sqrt(252)
Volatility(returns) == NMul(SeriesStd(returns), FSqrt(ToFloat(TradingDays)))

\* line 92
Returns(portfolio_values) == DropNa(PctChange(portfolio_values))

\* the largest of the first j values
RECURSIVE RunningMax(_, _)
RunningMax(xs, j) ==
    IF j = 1 THEN xs[1]
    ELSE LET m == RunningMax(xs, j - 1) IN IF xs[j] > m THEN xs[j] ELSE m

\* line 110: portfolio_values.expanding(min_periods=1).max()
Peak(portfolio_values) ==
    [j \in 1..Len(portfolio_values) |-> RunningMax(portfolio_values, j)]

\* line 111: (portfolio_values - peak) / peak
Drawdown(portfolio_values) ==
    [j \in 1..Len(portfolio_values) |->
        FDiv(FSub(portfolio_values[j], Peak(portfolio_values)[j]),
             Peak(portfolio_values)[j])]

\* min() of a column: the least defined value, NaN when there is none
SeriesMin(xs) ==
    LET defined == {xs[j] : j \in 1..Len(xs)} \ {NaN}
    IN  IF defined = {} THEN NaN
        ELSE CHOOSE m \in defined : \A x \in defined : m <= x

\* the drawdown reported as a magnitude, the sign dropped
MaxDrawdown_AsMagnitude(portfolio_values) ==
    LET m == SeriesMin(Drawdown(portfolio_values))
    IN  IF m = NaN THEN NaN ELSE -m

\* _calculate_max_drawdown, lines 108-112
MaxDrawdown(portfolio_values) == SeriesMin(Drawdown(portfolio_values))

\* _calculate_win_rate, lines 122-125: the loop over i = 1, 3, 5, ... counts
\* the pairs whose second price is above the first (k is i, 0-based)
RECURSIVE WinningTrades(_, _)
WinningTrades(trs, k) ==
    IF k >= Len(trs) THEN 0
    ELSE (IF At(trs, k).price > At(trs, k - 1).price THEN 1 ELSE 0)
         + WinningTrades(trs, k + 2)

\* every second entry with a price not below the one before it counts
WinRate_CountTies(trs) ==
    IF Len(trs) < 2 THEN ToFloat(0)
    ELSE LET wins == Cardinality({k \in 1..(Len(trs) - 1) :
                                      k % 2 = 1 /\ At(trs, k).price >= At(trs, k - 1).price})
         IN  FDiv(ToFloat(wins), ToFloat(Len(trs) \div 2))

\* _calculate_win_rate, lines 114-128
WinRate(trs) ==
    IF Len(trs) < 2 THEN ToFloat(0)
    ELSE LET winning_trades == WinningTrades(trs, 1)
             total_trade_pairs == Len(trs) \div 2
         IN  IF total_trade_pairs > 0
             THEN FDiv(ToFloat(winning_trades), ToFloat(total_trade_pairs))
             ELSE ToFloat(0)

\* lines 91-106
Metrics ==
    /\ pc = "loop" /\ i >= Len(close)
    /\ Len(close) > 0
    /\ results' = [done |-> TRUE,
                   trades |-> trades,
                   final_value |-> Last(df_portfolio_value),
                   total_return |->
                       FDiv(FSub(Last(df_portfolio_value), strategy.initial_capital),
                            strategy.initial_capital),
                   max_drawdown |-> MaxDrawdown(df_portfolio_value),
                   win_rate |-> WinRate(trades),
                   trade_count |-> Len(trades),
                   sharpe_ratio |-> SharpeRatio(Returns(df_portfolio_value)),
                   volatility |-> Volatility(Returns(df_portfolio_value))]
    /\ pc' = "done"
    /\ UNCHANGED <<strategies, all_results, strategy, close, i, signals, position, cash, trades,
                   df_position, df_cash, df_holdings, df_portfolio_value, df_trades>>

\* backtest of a strategy with given signals
Next == GenerateCustom \/ BuyBar \/ SellBar \/ IdleBar \/ Metrics

Spec == Init /\ [][Next]_vars

\* backtest of the indicator strategies
NextIndicators ==
    \/ GenerateSMA \/ GenerateEMA \/ GenerateRSI \/ GenerateMACD
    \/ BuyBar \/ SellBar \/ IdleBar \/ Metrics

SpecIndicators == InitIndicators /\ [][NextIndicators]_vars

(* ---------------------------- main: several strategies ---------------- *)

\* the strategies main may put in its list
ListedStrategies ==
    { [kind |-> "sma", fast_period |-> 1, slow_period |-> 2,
       initial_capital |-> ToFloat(97), commission |-> Scale \div 8,
       slippage |-> Scale \div 16],
      [kind |-> "ema", fast_period |-> 1, slow_period |-> 3,
       initial_capital |-> ToFloat(97), commission |-> Scale \div 8,
       slippage |-> Scale \div 16],
      [kind |-> "rsi", period |-> 2, oversold |-> 30, overbought |-> 70,
       initial_capital |-> ToFloat(97), commission |-> Scale \div 8,
       slippage |-> Scale \div 16] }

\* lines 445-465: a series, a list of strategies in some order, the first
\* of them about to run
InitMain ==
    /\ close \in SeqsOfLen(GenPrices, MaxLen - 1)
    /\ \E order \in SeqsOfLen(ListedStrategies, 3) :
          /\ strategy = Head(order)
          /\ strategies = Tail(order)
    /\ all_results = <<>>
    /\ pc = "start"
    /\ i = 0
    /\ signals = <<>>
    /\ position = 0
    /\ cash = 0
    /\ trades = <<>>
    /\ df_position = <<>>
    /\ df_cash = <<>>
    /\ df_holdings = <<>>
    /\ df_portfolio_value = <<>>
    /\ df_trades = <<>>
    /\ results = [done |-> FALSE]

\* lines 468-472 with the next strategy funded by what the last one ended with
StoreResult_CarriesCapital ==
    /\ pc = "done"
    /\ all_results' = Append(all_results,
                             [strategy |-> strategy, signals |-> signals,
                              equity |-> df_portfolio_value, result |-> results])
    /\ IF strategies = <<>>
       THEN /\ pc' = "end"
            /\ UNCHANGED <<strategy, strategies>>
       ELSE /\ pc' = "start"
            /\ strategy' = [Head(strategies) EXCEPT !.initial_capital = results.final_value]
            /\ strategies' = Tail(strategies)
    /\ UNCHANGED <<close, i, signals, position, cash, trades,
                   df_position, df_cash, df_holdings, df_portfolio_value, df_trades,
                   results>>

\* lines 468-472: the result is stored and the loop moves to the next strategy
StoreResult ==
    /\ pc = "done"
    /\ all_results' = Append(all_results,
                             [strategy |-> strategy, signals |-> signals,
                              equity |-> df_portfolio_value, result |-> results])
    /\ IF strategies = <<>>
       THEN /\ pc' = "end"
            /\ UNCHANGED <<strategy, strategies>>
       ELSE /\ pc' = "start"
            /\ strategy' = Head(strategies)
            /\ strategies' = Tail(strategies)
    /\ UNCHANGED <<close, i, signals, position, cash, trades,
                   df_position, df_cash, df_holdings, df_portfolio_value, df_trades,
                   results>>

NextMain ==
    \/ GenerateSMA \/ GenerateEMA \/ GenerateRSI
    \/ BuyBar \/ SellBar \/ IdleBar \/ Metrics
    \/ StoreResult

SpecMain == InitMain /\ [][NextMain]_vars

(* ---------------------------- series outside the domain --------------- *)

\* line 97 on a series without bars: iloc[-1] raises IndexError
MetricsRaises ==
    /\ pc = "loop" /\ i >= Len(close)
    /\ Len(close) = 0
    /\ pc' = "error"
    /\ UNCHANGED <<strategies, all_results, strategy, close, i, signals, position, cash, trades,
                   df_position, df_cash, df_holdings, df_portfolio_value, df_trades,
                   results>>

AnyPrices == {-2, 2}

\* a strategy with given signals and a series of that length, possibly
\* empty, possibly with closes below 0
InitAnySeries ==
    /\ strategy \in
          { [kind |-> "custom", out |-> s,
             initial_capital |-> b[1], commission |-> b[2], slippage |-> b[3]] :
               s \in UNION { SeqsOfLen(Signal, n) : n \in 0..(MaxLen - 1) },
               b \in BaseFields }
    /\ close \in SeqsOfLen(AnyPrices, Len(strategy.out))
    /\ NotStarted

NextAnySeries ==
    GenerateCustom \/ BuyBar \/ SellBar \/ IdleBar \/ Metrics \/ MetricsRaises

SpecAnySeries == InitAnySeries /\ [][NextAnySeries]_vars

(* ---------------------------- SMA(2,3) scenario ------------------------ *)

ScenarioCloses == <<10, 10, 10, 12, 14, 16, 14, 12, 10, 10>>

\* the scenario's series and the series that differ from it in one close
ScenarioSeries ==
    { [ScenarioCloses EXCEPT ![k] = v] :
        k \in 1..Len(ScenarioCloses), v \in {10, 12, 14, 16} }

\* SMAStrategy(fast_period=2, slow_period=3, initial_capital=1000) without costs
ScenarioStrategy ==
    [kind |-> "sma", fast_period |-> 2, slow_period |-> 3,
     initial_capital |-> ToFloat(1000), commission |-> 0, slippage |-> 0]

InitScenario ==
    /\ strategy = ScenarioStrategy
    /\ close \in ScenarioSeries
    /\ NotStarted

NextScenario == GenerateSMA \/ BuyBar \/ SellBar \/ IdleBar \/ Metrics

SpecScenario == InitScenario /\ [][NextScenario]_vars

(* ---------------------------- win rate alone --------------------------- *)

LogPrices == {100, 150, 200}

\* alternating logs of at most MaxLog entries, starting with a buy
TradeLogs ==
    UNION { { [k \in 1..n |-> [date |-> k,
                               type |-> (IF k % 2 = 1 THEN "buy" ELSE "sell"),
                               price |-> ToFloat(ps[k]),
                               shares |-> ToFloat(1)]] : ps \in SeqsOfLen(LogPrices, n) }
            : n \in 0..MaxLog }

\* a trade log about to be handed to _calculate_win_rate
InitWinRate ==
    /\ strategy = [kind |-> "custom", out |-> <<>>, initial_capital |-> ToFloat(97),
                   commission |-> 0, slippage |-> 0]
    /\ close = <<>>
    /\ pc = "win_rate"
    /\ i = 0
    /\ signals = <<>>
    /\ position = 0
    /\ cash = 0
    /\ trades \in TradeLogs
    /\ df_position = <<>>
    /\ df_cash = <<>>
    /\ df_holdings = <<>>
    /\ df_portfolio_value = <<>>
    /\ df_trades = <<>>
    /\ results = [done |-> FALSE]
    /\ strategies = <<>>
    /\ all_results = <<>>

\* line 100: 'win_rate': self._calculate_win_rate(trades)
CalculateWinRate ==
    /\ pc = "win_rate"
    /\ results' = [done |-> TRUE, win_rate |-> WinRate(trades)]
    /\ pc' = "done"
    /\ UNCHANGED <<strategies, all_results, strategy, close, i, signals, position, cash, trades,
                   df_position, df_cash, df_holdings, df_portfolio_value, df_trades>>

NextWinRate == CalculateWinRate

SpecWinRate == InitWinRate /\ [][NextWinRate]_vars

(* ---------------------------- properties ------------------------------- *)

\* the bar loop has started: the locals and the columns exist
Started == pc \in {"loop", "done"}

\* the strategy's costs are in the range where a sale returns cash
SaneCosts ==
    /\ strategy.commission >= 0 /\ strategy.slippage >= 0
    /\ strategy.commission + strategy.slippage < Scale

Funded == strategy.initial_capital > 0

\* entry k (1-based) of the log is a buy at odd k, a sell at even k
Alternates(log) ==
    \A k \in 1..Len(log) : log[k].type = (IF k % 2 = 1 THEN "buy" ELSE "sell")

\* C1 as stated: for every initial_capital, commission and slippage the
\* trade log alternates buy, sell, buy, ... starting with a buy.
C1_AlternatesAlways == Started => Alternates(trades)

\* C1 amended: with initial_capital > 0 and 0 <= commission + slippage < 1
\* the trade log alternates buy, sell, buy, ... starting with a buy.
C1_AlternatesWhenFunded == (Started /\ Funded /\ SaneCosts) => Alternates(trades)

\* a funded run that bought and sold, with a Buy signal arriving while long
C1_Witness ==
    /\ pc = "done" /\ Funded /\ SaneCosts
    /\ Len(trades) = 2
    /\ \E j \in 1..(Len(close) - 1) : At(signals, j) = 1 /\ At(df_position, j - 1) > 0

\* the signal of the bar about to be processed is one the state ignores
IgnoredSignal ==
    \/ At(signals, i) = 1 /\ position > 0
    \/ At(signals, i) = -1 /\ position = 0

\* C2: a Buy while long or a Sell while flat leaves cash, shares_held and
\* the trade log unchanged; the bar only records its equity mark.
C2_IgnoredSignalIsNoOp ==
    [][(InLoop /\ IgnoredSignal) =>
          /\ cash' = cash /\ position' = position /\ trades' = trades
          /\ df_portfolio_value' =
                [df_portfolio_value EXCEPT
                    ![i + 1] = FAdd(cash, FMul(position, ToFloat(At(close, i))))]
          /\ results' = results]_vars

\* a Sell while flat and, later, a Buy while long have both been processed
C2_Witness ==
    /\ Started
    /\ \E j \in 1..(i - 1) : At(signals, j) = -1 /\ At(df_position, j - 1) = 0
    /\ \E j \in 1..(i - 1) : At(signals, j) = 1 /\ At(df_position, j - 1) > 0

NoBuySignal == \A j \in 1..Len(signals) : signals[j] # 1

\* C3: when no index of the signal sequence is a Buy, every bar's equity
\* is initial_capital and the trade log, also the returned one, is empty.
C3_NoBuyIsFlat ==
    (Started /\ NoBuySignal) =>
        /\ trades = <<>>
        /\ \A j \in 1..Len(close) : df_portfolio_value[j] = strategy.initial_capital
        /\ pc = "done" => (results.trades = <<>> /\ results.trade_count = 0
                           /\ results.final_value = strategy.initial_capital)

\* a finished run over four bars whose signals are Sell and Hold only
C3_Witness ==
    /\ pc = "done" /\ NoBuySignal /\ Funded
    /\ Len(close) = 4
    /\ \E j \in 1..3 : At(signals, j) = -1

\* C4 (for a funded strategy with costs below 100%): after every bar
\* either cash > 0 with shares_held = 0, or shares_held > 0 with cash = 0.
C4_CashOrSharesNeverBoth ==
    (Started /\ Funded /\ SaneCosts) =>
        \/ cash > 0 /\ position = 0
        \/ position > 0 /\ cash = 0

\* the cash left by the Buy recorded as the last entry of the log: the cash
\* of the bar before it less shares * price * (1 + commission + slippage)
RemainderOfLastBuy ==
    LET t == Last(trades)
    IN  FSub(At(df_cash, t.date - 1), FMul(FMul(t.shares, t.price), BuyCost))

HoldingMatchesLog ==
    /\ position > 0 =>
          /\ trades # <<>> /\ Last(trades).type = "buy"
          /\ cash = RemainderOfLastBuy
    /\ position = 0 => (trades = <<>> \/ Last(trades).type = "sell")

\* C5 as stated: after every bar, shares_held > 0 implies that cash is the
\* remainder of the most recent Buy and the log ends with that Buy, and
\* shares_held = 0 implies that the log is empty or ends with a Sell.
C5_HoldingMatchesLogAlways == Started => HoldingMatchesLog

\* C5 amended: the same, for initial_capital > 0 and
\* 0 <= commission + slippage < 1.
C5_HoldingMatchesLogWhenFunded == (Started /\ Funded /\ SaneCosts) => HoldingMatchesLog

\* long for a second bar after a Buy that left a non-zero remainder
C5_Witness ==
    /\ pc = "loop" /\ Funded /\ SaneCosts
    /\ position > 0 /\ cash # 0
    /\ Last(trades).date < i - 1

\* C6: the equity recorded at every processed bar is cash + shares_held *
\* close of that bar, from the cash and shares in force after the bar's
\* signal; at bar 0 it is initial_capital.
C6_EquityIsMarkToMarket ==
    Started =>
        /\ At(df_portfolio_value, 0) = strategy.initial_capital
        /\ \A j \in 1..(i - 1) :
              At(df_portfolio_value, j) =
                  FAdd(At(df_cash, j), FMul(At(df_position, j), ToFloat(At(close, j))))
        /\ i > 1 => (At(df_cash, i - 1) = cash /\ At(df_position, i - 1) = position)

\* a finished four-bar run with a Buy bar, a bar held long and a Sell bar
C6_Witness ==
    /\ pc = "done" /\ Funded /\ SaneCosts
    /\ Len(close) = 4 /\ Len(trades) = 2
    /\ Last(trades).date = 3 /\ trades[1].date = 1

\* the signals are one Buy at bar k >= 1, one Sell at bar k + m, Hold elsewhere
IsRoundTrip(k, m) ==
    /\ k >= 1 /\ m > 0 /\ k + m < Len(signals)
    /\ \A j \in 0..(Len(signals) - 1) :
          At(signals, j) = (IF j = k THEN 1 ELSE IF j = k + m THEN -1 ELSE 0)

\* (close[k+m] - close[k]) / close[k]
PriceReturn(k, m) ==
    FDiv(FSub(ToFloat(At(close, k + m)), ToFloat(At(close, k))), ToFloat(At(close, k)))

\* C7 (for a funded strategy and a Buy at a bar k >= 1): with commission =
\* slippage = 0 a single Buy at bar k and Sell at bar k + m give
\* total_return = (close[k+m] - close[k]) / close[k].
C7_RoundTripReturnIsPriceReturn ==
    (/\ pc = "done" /\ Funded
     /\ strategy.commission = 0 /\ strategy.slippage = 0) =>
        \A k \in 1..Len(close), m \in 1..Len(close) :
            IsRoundTrip(k, m) => results.total_return = PriceReturn(k, m)

\* fewer than period closes are available at bar j (0-based)
Undefined(j, period) == j + 1 < period

\* C8: an SMA bar at which the fast or the slow average is undefined, at
\* that bar or at the previous one, carries Hold.
C8_WarmUpIsHold ==
    (Started /\ strategy.kind = "sma") =>
        \A j \in 0..(Len(close) - 1) :
            (\/ Undefined(j, strategy.fast_period)
             \/ Undefined(j, strategy.slow_period)
             \/ j >= 1 /\ Undefined(j - 1, strategy.fast_period)
             \/ j >= 1 /\ Undefined(j - 1, strategy.slow_period))
                => At(signals, j) = 0

\* at the first bar where both averages exist the fast one is above the
\* slow one and the bar is Hold, and a later bar carries a signal
C8_Witness ==
    /\ Started /\ strategy.kind = "sma"
    /\ LET j == strategy.slow_period - 1
       IN  /\ j >= 1 /\ j < Len(close)
           /\ QGt(At(SMAFast(close, strategy.fast_period), j),
                  At(SMASlow(close, strategy.slow_period), j))
           /\ At(signals, j) = 0
    /\ \E j \in 1..(Len(close) - 1) : At(signals, j) # 0

\* the average loss of the window ending at bar j is defined and zero
ZeroAvgLoss(j) == At(AvgLoss(close, strategy.period), j) = QInt(0)

\* C9: an RSI bar whose RSI, or whose previous bar's RSI, comes from a zero
\* average loss carries Hold.
C9_ZeroLossIsHold ==
    (Started /\ strategy.kind = "rsi") =>
        \A j \in 1..(Len(close) - 1) :
            (ZeroAvgLoss(j) \/ ZeroAvgLoss(j - 1)) => At(signals, j) = 0

\* the two compared series of a crossover strategy
LineA ==
    CASE strategy.kind = "sma" -> SMAFast(close, strategy.fast_period)
      [] strategy.kind = "ema" -> EMAFast(close, strategy.fast_period)
      [] strategy.kind = "macd" ->
            MACDLine(close, strategy.fast_period, strategy.slow_period)

LineB ==
    CASE strategy.kind = "sma" -> SMASlow(close, strategy.slow_period)
      [] strategy.kind = "ema" -> EMASlow(close, strategy.slow_period)
      [] strategy.kind = "macd" ->
            MACDSignalLine(close, strategy.fast_period, strategy.slow_period,
                           strategy.signal_period)

\* order of two values, false when either is undefined
Above(a, b) == a[2] > 0 /\ b[2] > 0 /\ a[1] * b[2] > b[1] * a[2]

Below(a, b) == a[2] > 0 /\ b[2] > 0 /\ a[1] * b[2] < b[1] * a[2]

Tied(a, b) == a[2] > 0 /\ b[2] > 0 /\ a[1] * b[2] = b[1] * a[2]

\* C10: for SMA, EMA and MACD and every bar j >= 1 the signal is Buy exactly
\* when a[j] > b[j] and a[j-1] <= b[j-1], Sell exactly when a[j] < b[j] and
\* a[j-1] >= b[j-1], Hold otherwise; a tie at j, or the same strict order
\* as at j-1, is Hold.
C10_StrictCrossover ==
    (Started /\ strategy.kind \in {"sma", "ema", "macd"}) =>
        LET as == LineA
            bs == LineB
        IN  \A j \in 1..(Len(close) - 1) :
                LET a == as[j + 1]
                    b == bs[j + 1]
                    pa == as[j]
                    pb == bs[j]
                IN  /\ At(signals, j) \in {1, -1, 0}
                    /\ At(signals, j) = 1 <=>
                          (Above(a, b) /\ (Below(pa, pb) \/ Tied(pa, pb)))
                    /\ At(signals, j) = -1 <=>
                          (Below(a, b) /\ (Above(pa, pb) \/ Tied(pa, pb)))
                    /\ Tied(a, b) => At(signals, j) = 0
                    /\ (Above(a, b) /\ Above(pa, pb)) => At(signals, j) = 0
                    /\ (Below(a, b) /\ Below(pa, pb)) => At(signals, j) = 0

\* an EMA run with a Buy out of a tie, a Sell, and a bar that keeps the
\* strict order of the bar before it
C10_Witness ==
    /\ Started /\ strategy.kind = "ema"
    /\ \E j \in 1..(Len(close) - 1) :
          At(signals, j) = 1 /\ Tied(At(LineA, j - 1), At(LineB, j - 1))
    /\ \E j \in 1..(Len(close) - 1) : At(signals, j) = -1
    /\ \E j \in 1..(Len(close) - 1) :
          Above(At(LineA, j), At(LineB, j)) /\ Above(At(LineA, j - 1), At(LineB, j - 1))


\* C11: each of the four generators returns, for a series of N >= 1 bars,
\* exactly N signals, each of them 1, -1 or 0, with Hold (0) at index 0.
C11_SignalsAlignedAndHoldAtZero ==
    (Started /\ strategy.kind \in {"sma", "ema", "rsi", "macd"}) =>
        /\ Len(signals) = Len(close)
        /\ \A j \in 0..(Len(close) - 1) : At(signals, j) \in {1, -1, 0}
        /\ At(signals, 0) = 0

\* a generated sequence over a full-length series holding a Buy and a Sell
C11_Witness ==
    /\ Started /\ strategy.kind \in {"sma", "ema", "rsi", "macd"}
    /\ Len(close) = MaxLen /\ Len(signals) = Len(close)
    /\ \E j, k \in 1..(Len(close) - 1) : At(signals, j) = 1 /\ At(signals, k) = -1


\* the prices of a log, in order
LogPricesOf(log) == [k \in 1..Len(log) |-> log[k].price]

\* C12: the win rate is 0 for a log of fewer than 2 entries; otherwise it is
\* the number of j in 0..floor(n/2)-1 with price[2j+1] > price[2j], divided
\* by floor(n/2), an unmatched final Buy left out; for the log
\* Buy@100, Sell@150, Buy@150, Sell@200 it is 1.0.
C12_WinRateIsWinningPairsOverPairs ==
    (pc = "done") =>
        LET n == Len(trades)
            pairs == n \div 2
            won == Cardinality({j \in 0..(pairs - 1) :
                                   At(trades, 2 * j + 1).price > At(trades, 2 * j).price})
        IN  /\ n < 2 => results.win_rate = ToFloat(0)
            /\ n >= 2 => results.win_rate = FDiv(ToFloat(won), ToFloat(pairs))
            /\ LogPricesOf(trades) = <<ToFloat(100), ToFloat(150), ToFloat(150), ToFloat(200)>>
                   => results.win_rate = ToFloat(1)

\* the win rate of Buy@100, Sell@150, Buy@150, Sell@200 has been computed
C12_Witness ==
    /\ pc = "done"
    /\ LogPricesOf(trades) = <<ToFloat(100), ToFloat(150), ToFloat(150), ToFloat(200)>>
    /\ results.win_rate = ToFloat(1)


\* an equity trajectory that never falls from one bar to the next
NonDecreasing(xs) == \A j \in 1..(Len(xs) - 1) : xs[j] <= xs[j + 1]

\* the drawdown is a number that is at most 0, and 0 without a fall
DrawdownInRange ==
    /\ results.max_drawdown # NaN
    /\ results.max_drawdown <= 0
    /\ NonDecreasing(df_portfolio_value) => results.max_drawdown = 0

ScenarioDone == pc = "done" /\ strategy = ScenarioStrategy /\ close = ScenarioCloses

\* C14: SMA(2,3) on closes [10,10,10,12,14,16,14,12,10,10] with no costs and
\* initial_capital 1000 logs exactly one Buy followed by one Sell, ends
\* flat with final equity equal to the cash held after the Sell, and has a
\* strictly negative maximum drawdown equal to the fall of equity from its
\* peak (at close 16) to the equity after the decline.
C14_ScenarioRoundTrip ==
    ScenarioDone =>
        /\ Len(trades) = 2
        /\ trades[1].type = "buy" /\ trades[2].type = "sell"
        /\ position = 0
        /\ results.final_value = At(df_cash, trades[2].date)
        /\ results.final_value = cash
        /\ results.max_drawdown < 0
        /\ At(close, 5) = 16
        /\ \A j \in 0..(Len(close) - 1) :
              At(df_portfolio_value, j) <= At(df_portfolio_value, 5)
        /\ results.max_drawdown =
              FDiv(FSub(Last(df_portfolio_value), At(df_portfolio_value, 5)),
                   At(df_portfolio_value, 5))

\* the scenario has run: bought on the rise, sold on the decline
C14_Witness ==
    /\ ScenarioDone
    /\ Len(trades) = 2
    /\ trades[1].date < 5 /\ trades[2].date > 5


\* a price series outside the domain: no bar, or a close that is not positive
InvalidSeries == Len(close) = 0 \/ \E j \in 1..Len(close) : close[j] <= 0

\* C15: backtest on an invalid price series (empty, or with a close <= 0)
\* ends in an error before the bar loop processes any bar, and never
\* returns a result.
C15_InvalidSeriesFailsFast ==
    InvalidSeries => (i <= 1 /\ pc # "done" /\ ~results.done)


\* the bar-over-bar returns of the run
RunReturns == Returns(df_portfolio_value)

\* C16: for every valid series of at least one bar and every signal
\* sequence, win_rate, sharpe_ratio, volatility, max_drawdown and
\* total_return are defined numbers, never NaN; sharpe_ratio is 0 when the
\* return series is empty, has a single element or has zero standard
\* deviation (stated for initial_capital > 0).
C16_MetricsAlwaysDefined ==
    (pc = "done" /\ Funded) =>
        /\ IsNum(results.win_rate)
        /\ IsNum(results.sharpe_ratio)
        /\ IsNum(results.volatility)
        /\ IsNum(results.max_drawdown)
        /\ IsNum(results.total_return)
        /\ (Len(RunReturns) <= 1 \/ SeriesStd(RunReturns) = 0)
              => results.sharpe_ratio = ToFloat(0)


\* two stored runs of one strategy have the same signals, trade log,
\* equity trajectory and metrics, whatever ran between them
SameStrategySameResult ==
    \A a, b \in 1..Len(all_results) :
        all_results[a].strategy.kind = all_results[b].strategy.kind
            => all_results[a] = all_results[b]

\* the strategy objects still have the parameters they were listed with
ParametersAsListed ==
    /\ strategy \in ListedStrategies
    /\ \A k \in 1..Len(strategies) : strategies[k] \in ListedStrategies

EndsOnBuy == pc = "done" /\ trades # <<>> /\ Last(trades).type = "buy"

\* the position is still open at the end and marked at the last close
OpenAtEnd ==
    /\ position > 0
    /\ Len(trades) % 2 = 1
    /\ results.trades = trades
    /\ Len(results.trades) = results.trade_count
    /\ results.final_value = FAdd(cash, FMul(position, ToFloat(Last(close))))

\* C18 as stated: if the last trade is a Buy with no later Sell, the run
\* ends with shares_held > 0, no Sell is appended at the final bar, the log
\* has odd length ending in a Buy, and final equity is
\* cash + shares_held * last close.
C18_OpenPositionAtEndAlways == EndsOnBuy => OpenAtEnd

\* C18 amended: the same with initial_capital > 0 and
\* 0 <= commission + slippage < 1.
C18_OpenPositionAtEndWhenFunded == (EndsOnBuy /\ Funded /\ SaneCosts) => OpenAtEnd

\* a funded run that bought, sold and bought again, and ended long
C18_Witness ==
    /\ EndsOnBuy /\ Funded /\ SaneCosts
    /\ Len(trades) = 3
    /\ position > 0


\* C19: the signal at bar 0 is never acted on: no trade record carries
\* bar 0's timestamp, after bar 0 the state is flat with
\* cash == initial_capital, and equity[0] == initial_capital.
C19_BarZeroIsInitialState ==
    Started =>
        /\ \A k \in 1..Len(trades) : trades[k].date # 0
        /\ At(df_position, 0) = 0
        /\ At(df_cash, 0) = strategy.initial_capital
        /\ At(df_portfolio_value, 0) = strategy.initial_capital
        /\ At(df_trades, 0) = 0
        /\ i = 1 => (position = 0 /\ cash = strategy.initial_capital /\ trades = <<>>)

\* a funded run whose signals start with a Buy at index 0 has returned
C19_Witness ==
    /\ pc = "done" /\ Funded
    /\ At(signals, 0) = 1
    /\ Len(close) >= 2


\* the step appends a record of the given type to the trade log
Appends(type) == Len(trades') = Len(trades) + 1 /\ Last(trades').type = type

\* a Sell step empties the position, adds the proceeds to cash and records
\* the quantity of the Buy record before it
SellLiquidates ==
    Appends("sell") =>
        /\ position' = 0
        /\ cash' = FAdd(cash, FMul(FMul(position, ToFloat(At(close, i))), SellCost))
        /\ trades # <<>> /\ Last(trades).type = "buy"
        /\ Last(trades').shares = Last(trades).shares

\* a Buy step pays exactly the cash held before it
BuySpendsAll ==
    Appends("buy") =>
        FMul(FMul(position', ToFloat(At(close, i))), BuyCost) = cash

\* C20: a Sell leaves shares_held == 0 and cash increased by
\* shares_held * close * (1 - commission - slippage), its record carrying
\* the quantity of the preceding Buy record; a Buy spends all cash:
\* shares_bought * close * (1 + commission + slippage) equals the cash
\* before it (stated for initial_capital > 0 and costs below 100%).
C20_SellLiquidatesBuySpendsAll ==
    [][(Funded /\ SaneCosts) => (SellLiquidates /\ BuySpendsAll)]_vars


\* the step keeps the log or adds one record at its end
AppendsAtMostOne ==
    \/ trades' = trades
    \/ /\ Len(trades') = Len(trades) + 1
       /\ SubSeq(trades', 1, Len(trades)) = trades

\* over the bars processed so far the trades column starts at 0, never
\* falls, rises by at most 1 from a bar to the next and ends at the length
\* of the log
TradeCountStepsByOne ==
    Started =>
        /\ At(df_trades, 0) = 0
        /\ \A j \in 1..(Len(close) - 1) :
              j < i => At(df_trades, j) - At(df_trades, j - 1) \in {0, 1}
        /\ (i > 1 /\ i <= Len(close)) => At(df_trades, i - 1) = Len(trades)

\* the records of the log are dated in strictly increasing order
TimestampsIncrease ==
    \A k, m \in 1..Len(trades) : k < m => trades[k].date < trades[m].date

\* C21: the trade log is append-only and grows by at most one record per
\* bar: the per-bar trade count never decreases and rises by 0 or 1 between
\* consecutive bars, and the timestamps of the records are strictly
\* increasing in log order.
C21_TradeLogAppendOnly ==
    /\ [](TradeCountStepsByOne /\ TimestampsIncrease)
    /\ [][AppendsAtMostOne]_vars

\* a run that logged three trades, one on each of three bars
C21_Witness ==
    /\ pc = "done"
    /\ Len(trades) = 3
    /\ At(df_trades, Len(close) - 1) = 3
    /\ trades[3].date > trades[2].date /\ trades[2].date > trades[1].date

====
